---------------------------- MODULE Spec2Model ----------------------------
(***************************************************************************)
(* State-machine model of billfinder.py: the control thread of main(), the *)
(* ThreadPoolExecutor workers running parse_bill_page, and the pure        *)
(* extraction, formatting and sorting functions they use.                  *)
(*                                                                         *)
(* Strings that the code takes apart (file names, bill numbers) are        *)
(* sequences of one-character strings.  A document text is a sequence of   *)
(* tokens (words, numbers, line ends); the regular expressions of the      *)
(* source are matched on tokens.  An optional value (None in the source)   *)
(* is a sequence of length 0, a present value x is <<x>>.                  *)
(***************************************************************************)
EXTENDS Integers, Sequences, FiniteSets, TLC

(* ------------------------------ bounds --------------------------------- *)

\* longest directory listing (number of anchors) a session may return
MaxFiles == 2
\* largest --workers value tried
MaxWorkers == 2

(* --------------------------- basic helpers ----------------------------- *)

None == <<>>
Some(x) == <<x>>

Digits == {"0", "1", "2", "3", "4", "5", "6", "7", "8", "9"}

DigitVal(c) ==
  CASE c = "0" -> 0 [] c = "1" -> 1 [] c = "2" -> 2 [] c = "3" -> 3
    [] c = "4" -> 4 [] c = "5" -> 5 [] c = "6" -> 6 [] c = "7" -> 7
    [] c = "8" -> 8 [] c = "9" -> 9

DigitChar(n) ==
  CASE n = 0 -> "0" [] n = 1 -> "1" [] n = 2 -> "2" [] n = 3 -> "3"
    [] n = 4 -> "4" [] n = 5 -> "5" [] n = 6 -> "6" [] n = 7 -> "7"
    [] n = 8 -> "8" [] n = 9 -> "9"

\* int(s) for a string of decimal digits (int("") raises; never called so)
RECURSIVE ToInt(_)
ToInt(s) ==
  IF Len(s) = 0 THEN 0
  ELSE 10 * ToInt(SubSeq(s, 1, Len(s) - 1)) + DigitVal(s[Len(s)])

\* str(n) for n >= 0
RECURSIVE ToStr(_)
ToStr(n) ==
  IF n < 10 THEN <<DigitChar(n)>>
  ELSE ToStr(n \div 10) \o <<DigitChar(n % 10)>>

\* the elements of s that satisfy Keep, in order
RECURSIVE SelectChars(_, _)
SelectChars(s, keep) ==
  IF Len(s) = 0 THEN <<>>
  ELSE (IF s[1] \in keep THEN <<s[1]>> ELSE <<>>) \o SelectChars(Tail(s), keep)

EndsWith(s, suffix) ==
  /\ Len(s) >= Len(suffix)
  /\ SubSeq(s, Len(s) - Len(suffix) + 1, Len(s)) = suffix

(* ------------------------- configuration ------------------------------- *)

\* SESSION_FOLDERS, in insertion (iteration) order: biennium label and folder
SESSION_FOLDERS ==
  << [biennium |-> "2023-24",
      base |-> "https://app.leg.wa.gov/documents/billdocs/2023-24/Htm/Bills/House%20Bills/"],
     [biennium |-> "2025-26",
      base |-> "https://app.leg.wa.gov/documents/billdocs/2025-26/Htm/Bills/House%20Bills/"] >>

DEFAULT_YEARS == {2023, 2024, 2025}

\* the one keyword pattern, \bclimate\b, as the lower-case word it matches
KEYWORDS == <<"climate">>

(* --------------------------- document texts ---------------------------- *)

\* tokens of a document text
W(s) == [kind |-> "word", s |-> s, d |-> <<>>]
N(d) == [kind |-> "num", s |-> "", d |-> d]
NL == [kind |-> "nl", s |-> "", d |-> <<>>]

\* str.lower() / re.I on the words the documents use
Lower(s) ==
  CASE s = "HOUSE" -> "house" [] s = "House" -> "house"
    [] s = "BILL" -> "bill" [] s = "Bill" -> "bill"
    [] s = "Regular" -> "regular" [] s = "REGULAR" -> "regular"
    [] s = "Session" -> "session" [] s = "SESSION" -> "session"
    [] s = "AN" -> "an" [] s = "ACT" -> "act"
    [] s = "Relating" -> "relating" [] s = "RELATING" -> "relating"
    [] s = "TO" -> "to" [] s = "Climate" -> "climate"
    [] s = "Special" -> "special" [] s = "SUBSTITUTE" -> "substitute"
    [] OTHER -> s

\* html.unescape on one word
Unescape(s) ==
  CASE s = "&amp;" -> "&"
    [] OTHER -> s

\* the tokens of a text that are not line ends (\s+ also spans line ends)
RECURSIVE Flat(_)
Flat(text) ==
  IF Len(text) = 0 THEN <<>>
  ELSE (IF text[1].kind = "nl" THEN <<>> ELSE <<text[1]>>) \o Flat(Tail(text))

IsWord(tok, lowered) == tok.kind = "word" /\ Lower(tok.s) \in lowered

\* YEAR_RE = \b(20\d{2})\s+(?:Regular|1st|2nd|3rd)\s+Session, re.I:
\* the positions in the flattened text where it matches
YearMatches(t) ==
  { i \in 1..(Len(t) - 2) :
      /\ t[i].kind = "num" /\ Len(t[i].d) = 4
      /\ t[i].d[1] = "2" /\ t[i].d[2] = "0"
      /\ IsWord(t[i + 1], {"regular", "1st", "2nd", "3rd"})
      /\ IsWord(t[i + 2], {"session"}) }

\* YEAR_RE.search(text): group 1 of the first match, or None
YEAR_RE(text) ==
  LET t == Flat(text)
      m == YearMatches(t)
  IN IF m = {} THEN None
     ELSE Some(t[CHOOSE i \in m : \A j \in m : i <= j].d)

\* BILLNUM_RE = \bHOUSE\s+BILL\s+(\d{3,4})\b, re.I
BillMatches(t) ==
  { i \in 1..(Len(t) - 2) :
      /\ IsWord(t[i], {"house"})
      /\ IsWord(t[i + 1], {"bill"})
      /\ t[i + 2].kind = "num" /\ Len(t[i + 2].d) \in {3, 4} }

\* BILLNUM_RE.search(text): group 1 of the first match, or None
BILLNUM_RE(text) ==
  LET t == Flat(text)
      m == BillMatches(t)
  IN IF m = {} THEN None
     ELSE Some(t[(CHOOSE i \in m : \A j \in m : i <= j) + 2].d)

\* AN_ACT_RE = \bAN\s+ACT\s+Relating\s+to[^\n\r]*, re.I, on the text with its
\* line ends: the positions where the phrase starts
ActMatches(text) ==
  { i \in 1..(Len(text) - 3) :
      /\ IsWord(text[i], {"an"})
      /\ IsWord(text[i + 1], {"act"})
      /\ IsWord(text[i + 2], {"relating"})
      /\ IsWord(text[i + 3], {"to"}) }

\* the tokens from position i to the end of its line
RECURSIVE RestOfLine(_, _)
RestOfLine(text, i) ==
  IF i > Len(text) \/ text[i].kind = "nl" THEN <<>>
  ELSE <<text[i]>> \o RestOfLine(text, i + 1)

\* AN_ACT_RE.search(text): the matched span (tokens), or None
AN_ACT_RE(text) ==
  LET m == ActMatches(text)
  IN IF m = {} THEN None
     ELSE Some(RestOfLine(text, CHOOSE i \in m : \A j \in m : i <= j))

\* a token as the strings it is written with, entities unescaped
TokenText(tok) == IF tok.kind = "num" THEN tok.d ELSE <<Unescape(tok.s)>>

RECURSIVE SpanText(_)
SpanText(span) ==
  IF Len(span) = 0 THEN <<>> ELSE TokenText(span[1]) \o SpanText(Tail(span))

\* str.strip(): blanks at both ends removed
RECURSIVE Strip(_)
Strip(s) ==
  IF Len(s) = 0 THEN s
  ELSE IF s[1] = " " THEN Strip(Tail(s))
  ELSE IF s[Len(s)] = " " THEN Strip(SubSeq(s, 1, Len(s) - 1))
  ELSE s

\* characters of [-\w] that file names use
WordChars ==
  Digits \cup {"-", "_", "S", "E", "H", "B", "i", "n", "d", "e", "x"}

\* the number of leading digits of s
RECURSIVE LeadingDigits(_)
LeadingDigits(s) ==
  IF Len(s) = 0 \/ s[1] \notin Digits THEN 0 ELSE 1 + LeadingDigits(Tail(s))

\* the file-name pattern without its suffix part, /(\d{3,4})\.htm$
FilenameNumberWithoutSuffix(url) ==
  LET f == url.file
      stem == SubSeq(f, 1, Len(f) - 4)
  IN IF /\ EndsWith(f, <<".", "h", "t", "m">>)
        /\ Len(stem) \in {3, 4}
        /\ \A j \in 1..Len(stem) : stem[j] \in Digits
     THEN Some(stem)
     ELSE None

\* re.search(r"/(\d{3,4})(?:[-\w]*)\.htm$", url): group 1, or None.  The
\* match starts at the last "/" of the url, the one before the file name.
FilenameNumber(url) ==
  LET f == url.file
      stem == SubSeq(f, 1, Len(f) - 4)
      k == LeadingDigits(stem)
      g == IF k >= 4 THEN 4 ELSE k
  IN IF /\ EndsWith(f, <<".", "h", "t", "m">>)
        /\ k >= 3
        /\ \A j \in (g + 1)..Len(stem) : stem[j] \in WordChars
     THEN Some(SubSeq(stem, 1, g))
     ELSE None

\* parse_bill_page(url) on the text the fetch returned
parse_bill_page(url, text) ==
  LET m == YEAR_RE(text)
      n == BILLNUM_RE(text)
      t == AN_ACT_RE(text)
  IN [ year |-> IF m # None THEN Some(ToInt(m[1])) ELSE None,
       bill_number |-> IF n # None THEN n ELSE FilenameNumber(url),
       title |-> IF t # None THEN Some(Strip(SpanText(t[1]))) ELSE None,
       matched |-> \E k \in 1..Len(KEYWORDS) : \E i \in 1..Len(text) :
                      text[i].kind = "word" /\ Lower(Lower(text[i].s)) = KEYWORDS[k],
       bill_text_url |-> url ]

\* the template with its two arguments exchanged
bill_summary_url_swapped(bill_number, year) ==
  IF bill_number = None \/ bill_number = Some(<<>>) \/ year = None \/ year = Some(0)
  THEN None
  ELSE Some(<<"https://app.leg.wa.gov/BillSummary/?BillNumber=">> \o ToStr(year[1])
            \o <<"&Year=">> \o bill_number[1] \o <<"&Initiative=false">>)

\* bill_summary_url(bill_number, year), arguments optional values
bill_summary_url(bill_number, year) ==
  IF bill_number = None \/ bill_number = Some(<<>>) \/ year = None \/ year = Some(0)
  THEN None
  ELSE Some(<<"https://app.leg.wa.gov/BillSummary/?BillNumber=">> \o bill_number[1]
            \o <<"&Year=">> \o ToStr(year[1]) \o <<"&Initiative=false">>)

(* ------------------------------ the site ------------------------------- *)

YearLine(y, q) == <<N(y), W(q), W("Session"), NL>>
BillLine(n) == <<W("HOUSE"), W("BILL"), N(n), NL>>

\* the documents of a session folder: file name and text
Pages ==
  << \* a plain bill
     [ file |-> <<"1", "1", "8", "1", ".", "h", "t", "m">>,
       text |-> YearLine(<<"2", "0", "2", "4">>, "Regular")
                \o BillLine(<<"1", "1", "8", "1">>)
                \o <<W("AN"), W("ACT"), W("Relating"), W("to"), W("climate"),
                     W("resilience."), W(" "), NL>> ],
     \* its substitute: no HOUSE BILL phrase, same year, number from the name
     [ file |-> <<"1", "1", "8", "1", "-", "S", ".", "h", "t", "m">>,
       text |-> YearLine(<<"2", "0", "2", "4">>, "REGULAR")
                \o <<W("SHB"), N(<<"1", "1", "8", "1">>), NL>>
                \o <<W("AN"), W("ACT"), W("RELATING"), W("TO"), W("Climate"),
                     W("&amp;"), W("energy."), NL>> ],
     \* three-digit number, lower-case phrases, no title
     [ file |-> <<"9", "9", "9", ".", "h", "t", "m">>,
       text |-> <<N(<<"2", "0", "2", "4">>), W("2nd"), W("Special"), W("Session"), NL>>
                \o YearLine(<<"2", "0", "2", "4">>, "1st")
                \o <<W("House"), W("Bill"), N(<<"9", "9", "9">>), NL>>
                \o <<W("the"), W("climate"), NL>> ],
     \* an earlier year with a larger number
     [ file |-> <<"2", "0", "0", "0", ".", "h", "t", "m">>,
       text |-> YearLine(<<"2", "0", "2", "3">>, "Regular")
                \o BillLine(<<"2", "0", "0", "0">>)
                \o <<W("AN"), W("ACT"), W("Relating"), W("to"), W("climate"), NL>> ],
     \* no year phrase; the number in the text differs from the file name
     [ file |-> <<"1", "5", "0", "0", ".", "h", "t", "m">>,
       text |-> <<N(<<"2", "0", "2", "4">>), W("Special"), W("Session"), NL>>
                \o BillLine(<<"1", "2", "3", "4">>)
                \o <<W("climate"), NL>> ],
     \* a year outside the default years
     [ file |-> <<"1", "6", "0", "0", ".", "h", "t", "m">>,
       text |-> YearLine(<<"2", "0", "2", "2">>, "Regular")
                \o BillLine(<<"1", "6", "0", "0">>)
                \o <<W("climate"), NL>> ],
     \* no keyword ("climates" is another word)
     [ file |-> <<"1", "7", "0", "0", ".", "h", "t", "m">>,
       text |-> YearLine(<<"2", "0", "2", "4">>, "Regular")
                \o BillLine(<<"1", "7", "0", "0">>)
                \o <<W("AN"), W("ACT"), W("Relating"), W("to"), W("climates"), NL>> ],
     \* no number in the text nor in the file name
     [ file |-> <<"i", "n", "d", "e", "x", ".", "h", "t", "m">>,
       text |-> YearLine(<<"2", "0", "2", "4">>, "Regular")
                \o <<W("climate"), NL>> ] >>

\* documents with unusual file names or numbers
OddPages ==
  << \* five digits in the text and in the file name
     [ file |-> <<"1", "2", "3", "4", "5", ".", "h", "t", "m">>,
       text |-> YearLine(<<"2", "0", "2", "4">>, "Regular")
                \o BillLine(<<"1", "2", "3", "4", "5">>)
                \o <<W("climate"), NL>> ],
     \* two digits in the file name, no HOUSE BILL phrase
     [ file |-> <<"9", "9", "-", "S", ".", "h", "t", "m">>,
       text |-> YearLine(<<"2", "0", "2", "4">>, "Regular")
                \o <<W("SHB"), N(<<"9", "9">>), NL>>
                \o <<W("climate"), NL>> ],
     \* the number behind a prefix in the file name, no HOUSE BILL phrase
     [ file |-> <<"H", "B", "1", "1", "8", "1", ".", "h", "t", "m">>,
       text |-> YearLine(<<"2", "0", "2", "4">>, "Regular")
                \o <<W("climate"), NL>> ] >>

\* an anchor of the listing that is no document
ParentLink == <<".", ".", "/">>

\* the hrefs a listing page may hold
Hrefs == { Pages[i].file : i \in 1..Len(Pages) } \cup {ParentLink}

\* r.text of a successful fetch of url
TextOf(url) ==
  LET all == Pages \o OddPages
      i == CHOOSE j \in 1..Len(all) : all[j].file = url.file
  IN all[i].text

\* urljoin(base_url, href) for a relative href
urljoin(base, href) == [base |-> base, file |-> href]

\* list_bill_files(biennium, base_url) on the anchors of the fetched listing:
\* the anchors selected by a[href$=".htm"], joined to the base
RECURSIVE list_bill_files(_, _)
list_bill_files(base, anchors) ==
  IF Len(anchors) = 0 THEN <<>>
  ELSE (IF EndsWith(anchors[1], <<".", "h", "t", "m">>)
        THEN <<urljoin(base, anchors[1])>> ELSE <<>>)
       \o list_bill_files(base, Tail(anchors))

(* ------------------------- the control loop ---------------------------- *)

\* Python truth of an optional int / an optional string
TruthyInt(y) == y # None /\ y[1] # 0
TruthyStr(b) == b # None /\ b[1] # <<>>

\* y in years, for an optional y (None is in no set of years)
YearIn(y, yrs) == \E v \in yrs : y = Some(v)

\* the filter without line 117: the keyword flag is not looked at
QualifiesIgnoringMatched(info, yrs) ==
  /\ TruthyInt(info.year) /\ TruthyStr(info.bill_number)
  /\ YearIn(info.year, yrs)

\* the filter without lines 113-114: absent fields are not looked for
QualifiesWithoutPresence(info, yrs) ==
  /\ YearIn(info.year, yrs)
  /\ info.matched

\* lines 111-118: the qualification filter on a parsed record
Qualifies(info, yrs) ==
  /\ TruthyInt(info.year) /\ TruthyStr(info.bill_number)
  /\ YearIn(info.year, yrs)
  /\ info.matched

\* line 120: key = (biennium, y, b)
KeyOf(biennium, info) == <<biennium, info.year, info.bill_number>>

\* f"HB {b}"
FormatBillNumber(b) ==
  <<"H", "B", " ">> \o (IF b = None THEN <<"N", "o", "n", "e">> ELSE b[1])

\* lines 125-134: the row appended for a qualifying record
RowOf(biennium, info) ==
  LET summary == bill_summary_url(info.bill_number, info.year)
  IN [ biennium |-> biennium,
       year |-> info.year[1],
       bill_number |-> FormatBillNumber(info.bill_number),
       title |-> IF TruthyStr(info.title) THEN info.title[1] ELSE <<>>,
       bill_text_url |-> info.bill_text_url,
       bill_summary_url |-> IF TruthyStr(summary) THEN summary[1] ELSE <<>> ]

\* the loop body without lines 121-122: a seen key is not skipped
AppendsWithoutDedup(biennium, result, yrs, seenKeys) ==
  /\ result # None
  /\ (TruthyInt(result[1].year) /\ TruthyStr(result[1].bill_number)
      /\ YearIn(result[1].year, yrs) /\ result[1].matched)

\* lines 105-134: whether the body of the loop appends a row for a future's
\* result (None: fut.result() raised), given the keys seen so far
Appends(biennium, result, yrs, seenKeys) ==
  /\ result # None
  /\ Qualifies(result[1], yrs)
  /\ KeyOf(biennium, result[1]) \notin seenKeys

\* the sort key with the bill number compared as text, not as an integer:
\* the number is its digits left-aligned in four places
SortKeyAsText(r) ==
  LET d == SelectChars(r.bill_number, Digits)
  IN <<r.year, ToInt(d \o [i \in 1..(4 - Len(d)) |-> "0"])>>

\* line 139: the sort key of a row
SortKey(r) == <<r.year, ToInt(SelectChars(r.bill_number, Digits))>>

\* tuple comparison of two sort keys
KeyLess(a, b) == a[1] < b[1] \/ (a[1] = b[1] /\ a[2] < b[2])
KeyLeq(a, b) == ~KeyLess(b, a)

\* r placed before the rows of equal key: a sort that is not stable
RECURSIVE InsertRowBeforeEqual(_, _)
InsertRowBeforeEqual(s, r) ==
  IF Len(s) = 0 THEN <<r>>
  ELSE IF KeyLeq(SortKey(r), SortKey(s[1])) THEN <<r>> \o s
  ELSE <<s[1]>> \o InsertRowBeforeEqual(Tail(s), r)

\* r placed in the sorted list s behind every row whose key is not greater
RECURSIVE InsertRow(_, _)
InsertRow(s, r) ==
  IF Len(s) = 0 THEN <<r>>
  ELSE IF KeyLess(SortKey(r), SortKey(s[1])) THEN <<r>> \o s
  ELSE <<s[1]>> \o InsertRow(Tail(s), r)

\* list.sort(key=...): stable, ascending
RECURSIVE SortRows(_)
SortRows(s) ==
  IF Len(s) = 0 THEN <<>>
  ELSE InsertRow(SortRows(SubSeq(s, 1, Len(s) - 1)), s[Len(s)])

(* ------------------------------- state --------------------------------- *)

VARIABLES
  years,        \* main's years argument
  max_workers,  \* main's max_workers argument
  delay,        \* main's delay argument
  pc,           \* where the control thread is
  sess,         \* index in SESSION_FOLDERS of the session being scanned
  files,        \* the list returned by list_bill_files for that session
  nsub,         \* how many of them have been submitted to the executor
  fut,          \* the futures of the session: state, result, yielded
  snap,         \* as_completed: the futures found finished when it was
                \* called and not yet yielded (yielded first, in any order)
  waiter,       \* as_completed: the futures finished since, in completion
                \* order, not yet yielded (waiter.finished_futures)
  rows,         \* the accumulated rows
  seen,         \* the deduplication set
  pauses,       \* how many times the control thread has slept
  out,          \* the report file: None until written, then <<rows>>
  skipped,      \* the sessions whose listing fetch failed
  ref           \* rows and keys of the same run drained in submission order

vars == <<years, max_workers, delay, pc, sess, files, nsub, fut, snap, waiter,
          rows, seen, pauses, out, skipped, ref>>

NSessions == Len(SESSION_FOLDERS)

YearChoices == {DEFAULT_YEARS}
DelayChoices == {0, 1}

\* the anchor lists a listing page may hold
RECURSIVE SeqsUpTo(_, _)
SeqsUpTo(S, n) ==
  IF n = 0 THEN {<<>>}
  ELSE LET shorter == SeqsUpTo(S, n - 1)
       IN shorter \cup { Append(q, x) : q \in shorter, x \in S }

Listings == SeqsUpTo(Hrefs, MaxFiles)

NewFuture == [state |-> "NEW", result |-> None, yielded |-> FALSE]

Init ==
  /\ years \in YearChoices
  /\ max_workers \in 1..MaxWorkers
  /\ delay \in DelayChoices
  /\ pc = "list"
  /\ sess = 1
  /\ files = <<>>
  /\ nsub = 0
  /\ fut = <<>>
  /\ snap = {}
  /\ waiter = <<>>
  /\ rows = <<>>
  /\ seen = {}
  /\ pauses = 0
  /\ out = None
  /\ skipped = {}
  /\ ref = [rows |-> <<>>, seen |-> {}]

Biennium == SESSION_FOLDERS[sess].biennium

\* the for statement of line 93 moves to the next session, or ends
NextSession ==
  /\ sess' = sess + 1
  /\ pc' = IF sess + 1 > NSessions THEN "sort" ELSE "list"

(* ------------------------------ actions -------------------------------- *)

\* lines 95-96, 101: the listing is fetched and the executor is created
ListOk(anchors) ==
  /\ pc = "list"
  /\ files' = list_bill_files(SESSION_FOLDERS[sess].base, anchors)
  /\ nsub' = 0
  /\ fut' = [i \in 1..Len(files') |-> NewFuture]
  /\ pc' = IF Len(files') = 0 THEN "iterate" ELSE "submit"
  /\ UNCHANGED <<years, max_workers, delay, sess, snap, waiter, rows, seen,
                 pauses, out, skipped, ref>>

\* the listing failure without the try of lines 95-99: it ends the run
ListFailAborting ==
  /\ pc = "list"
  /\ pc' = "failed"
  /\ skipped' = skipped \cup {sess}
  /\ UNCHANGED <<years, max_workers, delay, sess, files, nsub, fut, snap,
                 waiter, rows, seen, pauses, out, ref>>

\* lines 97-99: the listing fetch raised; the session is skipped
ListFail ==
  /\ pc = "list"
  /\ NextSession
  /\ skipped' = skipped \cup {sess}
  /\ UNCHANGED <<years, max_workers, delay, files, nsub, fut, snap, waiter,
                 rows, seen, pauses, out, ref>>

\* line 102: ex.submit(parse_bill_page, url) for the next url of files
Submit ==
  /\ pc = "submit"
  /\ nsub' = nsub + 1
  /\ fut' = [fut EXCEPT ![nsub + 1].state = "PENDING"]
  /\ pc' = IF nsub + 1 = Len(files) THEN "iterate" ELSE "submit"
  /\ UNCHANGED <<years, max_workers, delay, sess, files, snap, waiter, rows,
                 seen, pauses, out, skipped, ref>>

Running == { i \in 1..Len(fut) : fut[i].state = "RUNNING" }
Pending == { i \in 1..Len(fut) : fut[i].state = "PENDING" }

\* an executor that starts a thread for every work item
WorkerAlwaysFree == TRUE

\* whether a worker thread is free to take a work item
WorkerFree == Cardinality(Running) < max_workers

\* a worker thread takes the oldest work item of the executor's queue
WorkerStart ==
  /\ Pending # {}
  /\ WorkerFree
  /\ LET i == CHOOSE j \in Pending : \A k \in Pending : j <= k
     IN fut' = [fut EXCEPT ![i].state = "RUNNING"]
  /\ UNCHANGED <<years, max_workers, delay, pc, sess, files, nsub, snap,
                 waiter, rows, seen, pauses, out, skipped, ref>>

\* a fetch without timeout on a server that never answers
WorkerNeverReturns(i, ok) ==
  /\ i \in Running
  /\ FALSE
  /\ UNCHANGED vars

\* a worker whose failed fetch is put back in the queue and tried again
WorkerFinishRetrying(i, ok) ==
  /\ i \in Running
  /\ waiter' = IF ok /\ pc \in {"drain", "sleep"} THEN Append(waiter, i) ELSE waiter
  /\ fut' = IF ok
            THEN [fut EXCEPT ![i].state = "FINISHED",
                             ![i].result = Some(parse_bill_page(files[i], TextOf(files[i])))]
            ELSE [fut EXCEPT ![i].state = "PENDING"]
  /\ UNCHANGED <<years, max_workers, delay, pc, sess, files, nsub, snap, rows,
                 seen, pauses, out, skipped, ref>>

\* a worker that appends the row of its record itself
WorkerFinishAppending(i, ok) ==
  /\ i \in Running
  /\ waiter' = IF pc \in {"drain", "sleep"} THEN Append(waiter, i) ELSE waiter
  /\ fut' = [fut EXCEPT ![i].state = "FINISHED",
                        ![i].result = IF ok
                                      THEN Some(parse_bill_page(files[i], TextOf(files[i])))
                                      ELSE None]
  /\ rows' = IF Appends(Biennium, fut'[i].result, years, seen)
             THEN Append(rows, RowOf(Biennium, fut'[i].result[1]))
             ELSE rows
  /\ UNCHANGED <<years, max_workers, delay, pc, sess, files, nsub, snap,
                 seen, pauses, out, skipped, ref>>

\* lines 46-82 in a worker: the fetch of files[i] returns (ok) or raises, and
\* the future holds the record or the exception; a future that finishes
\* while as_completed waits is added to its waiter
WorkerFinish(i, ok) ==
  /\ i \in Running
  /\ waiter' = IF pc \in {"drain", "sleep"} THEN Append(waiter, i) ELSE waiter
  /\ fut' = [fut EXCEPT ![i].state = "FINISHED",
                        ![i].result = IF ok
                                      THEN Some(parse_bill_page(files[i], TextOf(files[i])))
                                      ELSE None]
  /\ UNCHANGED <<years, max_workers, delay, pc, sess, files, nsub, snap, rows,
                 seen, pauses, out, skipped, ref>>

\* line 103: as_completed(futures) is called: the futures already finished
\* are set apart, the others get a waiter
Iterate ==
  /\ pc = "iterate"
  /\ snap' = { i \in 1..Len(fut) : fut[i].state = "FINISHED" }
  /\ waiter' = <<>>
  /\ pc' = "drain"
  /\ UNCHANGED <<years, max_workers, delay, sess, files, nsub, fut, rows, seen,
                 pauses, out, skipped, ref>>

\* the futures as_completed may yield next: any of those finished before the
\* call (a set, iterated in no defined order), then the others as they
\* completed
Yieldable ==
  IF snap # {} THEN snap
  ELSE IF waiter # <<>> THEN {Head(waiter)}
  ELSE {}

\* the loop body without the try of lines 105-109: the exception of a failed
\* extraction leaves the loop and ends the run
DrainRaising(i) ==
  /\ pc = "drain"
  /\ i \in Yieldable
  /\ fut' = [fut EXCEPT ![i].yielded = TRUE]
  /\ IF i \in snap THEN snap' = snap \ {i} /\ waiter' = waiter
                    ELSE snap' = snap /\ waiter' = Tail(waiter)
  /\ IF fut[i].result = None
     THEN pc' = "failed" /\ UNCHANGED <<seen, rows, pauses>>
     ELSE IF Appends(Biennium, fut[i].result, years, seen)
     THEN /\ seen' = seen \cup {KeyOf(Biennium, fut[i].result[1])}
          /\ rows' = Append(rows, RowOf(Biennium, fut[i].result[1]))
          /\ IF delay > 0
             THEN pc' = "sleep" /\ pauses' = pauses + 1
             ELSE pc' = "drain" /\ pauses' = pauses
     ELSE UNCHANGED <<seen, rows, pc, pauses>>
  /\ UNCHANGED <<years, max_workers, delay, sess, files, nsub, out, skipped, ref>>

\* the row list with the row of the same triple as r replaced by r
ReplaceRow(rs, r) ==
  [k \in 1..Len(rs) |->
     IF <<rs[k].biennium, rs[k].year, rs[k].bill_number>>
        = <<r.biennium, r.year, r.bill_number>> THEN r ELSE rs[k]]

\* the loop body keeping the last document of a key instead of the first
DrainKeepingLast(i) ==
  /\ pc = "drain"
  /\ i \in Yieldable
  /\ fut' = [fut EXCEPT ![i].yielded = TRUE]
  /\ IF i \in snap THEN snap' = snap \ {i} /\ waiter' = waiter
                    ELSE snap' = snap /\ waiter' = Tail(waiter)
  /\ IF Appends(Biennium, fut[i].result, years, {})
     THEN IF KeyOf(Biennium, fut[i].result[1]) \in seen
          THEN /\ rows' = ReplaceRow(rows, RowOf(Biennium, fut[i].result[1]))
               /\ UNCHANGED <<seen, pc, pauses>>
          ELSE /\ seen' = seen \cup {KeyOf(Biennium, fut[i].result[1])}
               /\ rows' = Append(rows, RowOf(Biennium, fut[i].result[1]))
               /\ IF delay > 0
                  THEN pc' = "sleep" /\ pauses' = pauses + 1
                  ELSE pc' = "drain" /\ pauses' = pauses
     ELSE UNCHANGED <<seen, rows, pc, pauses>>
  /\ UNCHANGED <<years, max_workers, delay, sess, files, nsub, out, skipped, ref>>

\* the loop body with line 123 moved before line 115: the key of a record
\* with year and identifier is inserted before the record is filtered
DrainMarkingBeforeFilter(i) ==
  /\ pc = "drain"
  /\ i \in Yieldable
  /\ fut' = [fut EXCEPT ![i].yielded = TRUE]
  /\ IF i \in snap THEN snap' = snap \ {i} /\ waiter' = waiter
                    ELSE snap' = snap /\ waiter' = Tail(waiter)
  /\ IF Appends(Biennium, fut[i].result, years, seen)
     THEN /\ seen' = seen \cup {KeyOf(Biennium, fut[i].result[1])}
          /\ rows' = Append(rows, RowOf(Biennium, fut[i].result[1]))
          /\ IF delay > 0
             THEN pc' = "sleep" /\ pauses' = pauses + 1
             ELSE pc' = "drain" /\ pauses' = pauses
     ELSE /\ seen' = IF /\ fut[i].result # None
                        /\ TruthyInt(fut[i].result[1].year)
                        /\ TruthyStr(fut[i].result[1].bill_number)
                     THEN seen \cup {KeyOf(Biennium, fut[i].result[1])}
                     ELSE seen
          /\ UNCHANGED <<rows, pc, pauses>>
  /\ UNCHANGED <<years, max_workers, delay, sess, files, nsub, out, skipped, ref>>

\* the loop body with break for the continue of line 109: a failed
\* extraction ends the loop over the session's futures
DrainBreakingOnFailure(i) ==
  /\ pc = "drain"
  /\ i \in Yieldable
  /\ IF fut[i].result = None
     THEN /\ fut' = [j \in DOMAIN fut |-> [fut[j] EXCEPT !.yielded = TRUE]]
          /\ snap' = {} /\ waiter' = <<>>
          /\ UNCHANGED <<seen, rows, pc, pauses>>
     ELSE /\ fut' = [fut EXCEPT ![i].yielded = TRUE]
          /\ IF i \in snap THEN snap' = snap \ {i} /\ waiter' = waiter
                            ELSE snap' = snap /\ waiter' = Tail(waiter)
          /\ IF Appends(Biennium, fut[i].result, years, seen)
             THEN /\ seen' = seen \cup {KeyOf(Biennium, fut[i].result[1])}
                  /\ rows' = Append(rows, RowOf(Biennium, fut[i].result[1]))
                  /\ IF delay > 0
                     THEN pc' = "sleep" /\ pauses' = pauses + 1
                     ELSE pc' = "drain" /\ pauses' = pauses
             ELSE UNCHANGED <<seen, rows, pc, pauses>>
  /\ UNCHANGED <<years, max_workers, delay, sess, files, nsub, out, skipped, ref>>

\* the loop body with the sleep of lines 135-136 moved out of the body's
\* last statement: it pauses after every drained future
DrainPausingAlways(i) ==
  /\ pc = "drain"
  /\ i \in Yieldable
  /\ fut' = [fut EXCEPT ![i].yielded = TRUE]
  /\ IF i \in snap THEN snap' = snap \ {i} /\ waiter' = waiter
                    ELSE snap' = snap /\ waiter' = Tail(waiter)
  /\ IF Appends(Biennium, fut[i].result, years, seen)
     THEN /\ seen' = seen \cup {KeyOf(Biennium, fut[i].result[1])}
          /\ rows' = Append(rows, RowOf(Biennium, fut[i].result[1]))
     ELSE UNCHANGED <<seen, rows>>
  /\ IF delay > 0
     THEN pc' = "sleep" /\ pauses' = pauses + 1
     ELSE pc' = "drain" /\ pauses' = pauses
  /\ UNCHANGED <<years, max_workers, delay, sess, files, nsub, out, skipped, ref>>

\* lines 103-136: one iteration of the loop over as_completed(futures)
Drain(i) ==
  /\ pc = "drain"
  /\ i \in Yieldable
  /\ fut' = [fut EXCEPT ![i].yielded = TRUE]
  /\ IF i \in snap THEN snap' = snap \ {i} /\ waiter' = waiter
                    ELSE snap' = snap /\ waiter' = Tail(waiter)
  /\ IF Appends(Biennium, fut[i].result, years, seen)
     THEN /\ seen' = seen \cup {KeyOf(Biennium, fut[i].result[1])}
          /\ rows' = Append(rows, RowOf(Biennium, fut[i].result[1]))
          /\ IF delay > 0
             THEN pc' = "sleep" /\ pauses' = pauses + 1
             ELSE pc' = "drain" /\ pauses' = pauses
     ELSE UNCHANGED <<seen, rows, pc, pauses>>
  /\ UNCHANGED <<years, max_workers, delay, sess, files, nsub, out, skipped, ref>>

\* line 136: time.sleep(delay) returns
Wake ==
  /\ pc = "sleep"
  /\ pc' = "drain"
  /\ UNCHANGED <<years, max_workers, delay, sess, files, nsub, fut, snap,
                 waiter, rows, seen, pauses, out, skipped, ref>>

\* the same loop body applied to the futures 1..n in submission order
RECURSIVE InOrder(_, _, _, _, _)
InOrder(acc, biennium, futures, yrs, n) ==
  IF n = 0 THEN acc
  ELSE LET a == InOrder(acc, biennium, futures, yrs, n - 1)
           r == futures[n].result
       IN IF Appends(biennium, r, yrs, a.seen)
          THEN [rows |-> Append(a.rows, RowOf(biennium, r[1])),
                seen |-> a.seen \cup {KeyOf(biennium, r[1])}]
          ELSE a

\* as_completed is exhausted and the with block of line 101 is left: the
\* executor is shut down.  files and futures are not read again before line
\* 96 and line 102 assign them anew, so the model forgets them here.
EndSession ==
  /\ pc = "drain"
  /\ \A i \in 1..Len(fut) : fut[i].yielded
  /\ NextSession
  /\ files' = <<>> /\ nsub' = 0 /\ fut' = <<>>
  /\ ref' = InOrder(ref, Biennium, fut, years, Len(fut))
  /\ UNCHANGED <<years, max_workers, delay, snap, waiter, rows, seen, pauses,
                 out, skipped>>

\* line 139: rows.sort(...)
Sort ==
  /\ pc = "sort"
  /\ rows' = SortRows(rows)
  /\ pc' = "write"
  /\ UNCHANGED <<years, max_workers, delay, sess, files, nsub, fut, snap,
                 waiter, seen, pauses, out, skipped, ref>>

\* lines 142-147: the report is written, or opening or writing it raises
Write(ok) ==
  /\ pc = "write"
  /\ IF ok THEN out' = Some(rows) /\ pc' = "done"
           ELSE out' = out /\ pc' = "failed"
  /\ UNCHANGED <<years, max_workers, delay, sess, files, nsub, fut, snap,
                 waiter, rows, seen, pauses, skipped, ref>>

Next ==
  \/ \E anchors \in Listings : ListOk(anchors)
  \/ ListFail
  \/ Submit
  \/ WorkerStart
  \/ \E i \in 1..MaxFiles, ok \in BOOLEAN : WorkerFinish(i, ok)
  \/ Iterate
  \/ \E i \in 1..MaxFiles : Drain(i)
  \/ Wake
  \/ EndSession
  \/ Sort
  \/ Write(TRUE)
  \/ Write(FALSE)

Spec == Init /\ [][Next]_vars

\* the listings of a smaller site: a bill, its substitute and a document
\* without keyword
FewListings ==
  SeqsUpTo({Pages[1].file, Pages[2].file, Pages[7].file, ParentLink}, MaxFiles)

\* the same steps on the smaller site
FewNext ==
  \/ \E anchors \in FewListings : ListOk(anchors)
  \/ ListFail
  \/ Submit
  \/ WorkerStart
  \/ \E i \in 1..MaxFiles, ok \in BOOLEAN : WorkerFinish(i, ok)
  \/ Iterate
  \/ \E i \in 1..MaxFiles : Drain(i)
  \/ Wake
  \/ EndSession
  \/ Sort
  \/ Write(TRUE)
  \/ Write(FALSE)

\* the listings of a site with unusual file names: the substitute, the
\* document whose text and name disagree, the index and the odd pages
OddListings ==
  SeqsUpTo({Pages[2].file, Pages[5].file, Pages[8].file}
             \cup { OddPages[i].file : i \in 1..Len(OddPages) }, MaxFiles)

\* the same steps on that site
OddNext ==
  \/ \E anchors \in OddListings : ListOk(anchors)
  \/ ListFail
  \/ Submit
  \/ WorkerStart
  \/ \E i \in 1..MaxFiles, ok \in BOOLEAN : WorkerFinish(i, ok)
  \/ Iterate
  \/ \E i \in 1..MaxFiles : Drain(i)
  \/ Wake
  \/ EndSession
  \/ Sort
  \/ Write(TRUE)
  \/ Write(FALSE)

OddSpec == Init /\ [][OddNext]_vars

\* The control thread and the worker threads keep running, every fetch ends
\* (timeout=30 and timeout=45) and time.sleep returns: a step that can be
\* taken is eventually taken.
FairSpec == Init /\ [][FewNext]_vars /\ WF_vars(FewNext)

(* ------------------------------ properties ----------------------------- *)

Range(q) == { q[i] : i \in 1..Len(q) }

\* the written rows, or none before the report is written
Written == IF out = None THEN <<>> ELSE out[1]

\* the (biennium, year, bill_number) triple of a row
RowTriple(r) == <<r.biennium, r.year, r.bill_number>>

NoDuplicateTriples(rs) ==
  \A i, j \in 1..Len(rs) : i # j => RowTriple(rs[i]) # RowTriple(rs[j])

\* C1: no two rows, accumulated or written, have the same
\* (biennium, year, bill_number) triple, whatever the listings hold, whichever
\* fetches fail and in whatever order the extractions complete.
C1_NoDuplicateRows ==
  /\ NoDuplicateTriples(rows)
  /\ NoDuplicateTriples(Written)

\* C1: the report is written, and a document that the run in submission order
\* would have kept lost against another document of the same triple.
C1_Witness ==
  /\ out # None
  /\ \E r \in Range(ref.rows) :
       /\ r \notin Range(Written)
       /\ \E q \in Range(Written) : RowTriple(q) = RowTriple(r)

\* a step that is the loop body of lines 103-136 on future i
DrainStep(i) ==
  /\ pc = "drain"
  /\ i \in DOMAIN fut /\ i \in DOMAIN fut'
  /\ ~fut[i].yielded /\ fut'[i].yielded

\* whether one of the keyword patterns matches a text, case-insensitively
KeywordInText(text) ==
  \E i \in 1..Len(text) :
    text[i].kind = "word" /\ Lower(text[i].s) \in Range(KEYWORDS)

\* the year phrase of a text names year y
YearInText(text, y) == YEAR_RE(text) # None /\ ToInt(YEAR_RE(text)[1]) = y

RowFromQualifyingDocument(r) ==
  /\ r.year \in years
  /\ KeywordInText(TextOf(r.bill_text_url))
  /\ YearInText(TextOf(r.bill_text_url), r.year)

\* C2: every row comes from a fetched document whose year is in the year set
\* and whose text matches a keyword pattern, and draining a failed extraction,
\* a record of another year or an unmatched record appends no row.
C2_FilterInvariant ==
  /\ [](\A r \in Range(rows) \cup Range(Written) : RowFromQualifyingDocument(r))
  /\ [][\A i \in 1..MaxFiles :
          (DrainStep(i) /\ (\/ fut[i].result = None
                            \/ ~YearIn(fut[i].result[1].year, years)
                            \/ ~fut[i].result[1].matched))
          => rows' = rows]_vars

\* C2: in one session a qualifying record gave a row and an unmatched record
\* of a year in the set, drained as well, gave none.
C2_Witness ==
  /\ pc = "drain"
  /\ \E i, j \in 1..Len(fut) :
       /\ fut[i].yielded /\ fut[j].yielded
       /\ fut[i].result # None /\ fut[j].result # None
       /\ \E r \in Range(rows) : r.bill_text_url = files[i]
       /\ ~fut[j].result[1].matched
       /\ YearIn(fut[j].result[1].year, years)
       /\ \A r \in Range(rows) : r.bill_text_url # files[j]

\* the number of a row, read from its bill_number behind "HB "
RowNumber(r) == ToInt(SubSeq(r.bill_number, 4, Len(r.bill_number)))

NonDecreasing(rs) ==
  \A i \in 1..(Len(rs) - 1) :
    \/ rs[i].year < rs[i + 1].year
    \/ rs[i].year = rs[i + 1].year /\ RowNumber(rs[i]) <= RowNumber(rs[i + 1])

\* C3: the rows handed to the writer and the rows written are in
\* non-decreasing order of (year, bill number as an integer).
C3_SortInvariant ==
  /\ pc = "write" => NonDecreasing(rows)
  /\ NonDecreasing(Written)

\* C3: the report holds HB 999 of the later session before HB 1181 of the
\* earlier session, same year: the sort moved it, by number and not by text.
C3_Witness ==
  \E i, j \in 1..Len(Written) :
    /\ i < j
    /\ Written[i].biennium = SESSION_FOLDERS[2].biennium
    /\ Written[j].biennium = SESSION_FOLDERS[1].biennium
    /\ Written[i].year = Written[j].year
    /\ RowNumber(Written[i]) = 999 /\ RowNumber(Written[j]) = 1181

\* C4: two runs on the same listings, documents and fetch outcomes write the
\* same rows in the same order whatever the completion order: the report of
\* any run equals the report of the run that drains in submission order.
C4_SameOutputForEveryCompletionOrder ==
  (pc = "done" /\ skipped = {}) => Written = SortRows(ref.rows)

\* the index in SESSION_FOLDERS of a biennium label
SessionOf(b) == CHOOSE k \in 1..NSessions : SESSION_FOLDERS[k].biennium = b

\* rs is qs with rows added behind
IsPrefix(qs, rs) == Len(qs) <= Len(rs) /\ SubSeq(rs, 1, Len(qs)) = qs

\* between two states the rows only grow at the end, but for the final sort,
\* which reorders them
RowsKept ==
  IF pc = "sort" THEN Range(rows') = Range(rows) /\ Len(rows') = Len(rows)
  ELSE IsPrefix(rows, rows')

\* the title and url a row takes from the record of future i
RowTakenFrom(r, i) ==
  /\ r.bill_text_url = files[i]
  /\ r.title = (IF fut[i].result[1].title = None THEN <<>>
                ELSE fut[i].result[1].title[1])

ListFailStep == pc = "list" /\ skipped' # skipped

\* C6: a failed listing fetch does not end the run: the rows, the keys and
\* the futures stay as they are, the loop goes on to the next session (or to
\* the sort after the last one), no row is ever of a session whose listing
\* failed, rows of other sessions are never dropped, and the rows written
\* are the accumulated rows.
C6_ListingFailureSkipsSession ==
  /\ [](\A r \in Range(rows) \cup Range(Written) : SessionOf(r.biennium) \notin skipped)
  /\ [](pc = "done" => Written = rows)
  /\ [][/\ RowsKept
        /\ ListFailStep =>
             /\ rows' = rows /\ seen' = seen /\ fut' = fut
             /\ sess' = sess + 1
             /\ pc' = (IF sess = NSessions THEN "sort" ELSE "list")]_vars

\* C6: the listing of the first session failed and the report was written
\* with rows of the second session.
C6_Witness ==
  /\ pc = "done"
  /\ skipped = {1}
  /\ Written # <<>>
  /\ \A r \in Range(Written) : r.biennium = SESSION_FOLDERS[2].biennium

\* a step that drains future i, whose extraction failed
FailedDrainStep(i) == DrainStep(i) /\ fut[i].result = None

\* C7: draining a failed extraction changes neither the rows nor the keys,
\* leaves the other futures as they are and the loop in the drain; the
\* session ends only when every future has been yielded; and a qualifying
\* record with a new key still gets its row.
C7_FailedExtractionSkipped ==
  [][/\ \A i \in 1..MaxFiles :
          FailedDrainStep(i)
          => /\ rows' = rows /\ seen' = seen /\ pc' = "drain"
             /\ \A j \in DOMAIN fut : j # i => fut'[j] = fut[j]
     /\ (pc = "drain" /\ pc' \in {"list", "sort", "failed", "done"})
          => \A j \in DOMAIN fut : fut[j].yielded
     /\ \A i \in 1..MaxFiles :
          (DrainStep(i) /\ Appends(Biennium, fut[i].result, years, seen))
          => /\ rows' = Append(rows, RowOf(Biennium, fut[i].result[1]))
             /\ seen' = seen \cup {KeyOf(Biennium, fut[i].result[1])}]_vars

\* C7: with one worker the first extraction failed, and the second, which
\* finished after it, was drained and gave the only row of the session.
C7_Witness ==
  /\ pc = "drain" /\ max_workers = 1 /\ sess = 1
  /\ Len(fut) = 2 /\ fut[1].yielded /\ fut[2].yielded
  /\ fut[1].result = None /\ fut[2].result # None
  /\ Len(rows) = 1 /\ rows[1].bill_text_url = files[2]
  /\ Cardinality(seen) = 1

\* C8: draining a record without year or without identifier changes
\* neither the rows nor the keys, and no key ever lacks year or identifier.
C8_AbsentFieldsExcluded ==
  /\ [](\A k \in seen : k[2] # None /\ k[3] # None)
  /\ [][\A i \in 1..MaxFiles :
          (DrainStep(i) /\ fut[i].result # None
             /\ (fut[i].result[1].year = None \/ fut[i].result[1].bill_number = None))
          => rows' = rows /\ seen' = seen]_vars

\* C8: a matched record without year and a matched record of a year in the
\* set without identifier were both drained, and there is neither row nor key.
C8_Witness ==
  /\ pc = "drain"
  /\ \E i, j \in 1..Len(fut) :
       /\ fut[i].yielded /\ fut[j].yielded
       /\ fut[i].result # None /\ fut[j].result # None
       /\ fut[i].result[1].year = None /\ fut[i].result[1].matched
       /\ fut[i].result[1].bill_number # None
       /\ fut[j].result[1].bill_number = None /\ fut[j].result[1].matched
       /\ YearIn(fut[j].result[1].year, years)
  /\ rows = <<>> /\ seen = {}

Terminated == pc \in {"done", "failed"}

\* C9: every run ends, with the report written or the write failed; the
\* report is written once, after the last session, with every future
\* yielded; only the write makes a run fail; and nothing happens afterwards.
C9_Terminates ==
  /\ <>Terminated
  /\ [][/\ ~Terminated
        /\ out' # out => (pc = "write" /\ out = None /\ pc' = "done")
        /\ pc' = "failed" => pc = "write"
        /\ (pc' = "sort" /\ pc # "sort")
             => (sess = NSessions /\ \A j \in DOMAIN fut : fut[j].yielded)
        /\ pc \in {"sort", "write"} => sess = NSessions + 1]_vars

\* C9: the report was written after a run in which a listing fetch failed.
C9_Witness ==
  /\ pc = "done"
  /\ skipped = {2}
  /\ Written # <<>>

\* C10: never more extractions run at once than max_workers.
C10_ConcurrencyBound == Cardinality(Running) <= max_workers

\* C10: with one worker, one extraction runs while another waits in the queue.
C10_Witness ==
  /\ max_workers = 1
  /\ Cardinality(Running) = 1
  /\ Pending # {}

\* the words and numbers of a text, its line ends left out
Tokens(text) == SelectSeq(text, LAMBDA tok : tok.kind # "nl")

\* at position i of the tokens t stands HOUSE BILL, in any case, and a number
\* of three or four digits
PhraseAt(t, i) ==
  /\ i + 2 <= Len(t)
  /\ t[i].kind = "word" /\ Lower(t[i].s) = "house"
  /\ t[i + 1].kind = "word" /\ Lower(t[i + 1].s) = "bill"
  /\ t[i + 2].kind = "num" /\ Len(t[i + 2].d) >= 3 /\ Len(t[i + 2].d) <= 4

HasPhrase(text) == \E i \in 1..Len(Tokens(text)) : PhraseAt(Tokens(text), i)

\* the number of the first HOUSE BILL phrase of a text that has one
PhraseNumber(text) ==
  LET t == Tokens(text)
      i == CHOOSE k \in 1..Len(t) :
             PhraseAt(t, k) /\ \A j \in 1..(k - 1) : ~PhraseAt(t, j)
  IN t[i + 2].d

\* the file name is g digits, then a qualifier of letters, digits, "-" and
\* "_", then ".htm"; three digits only when no fourth follows
NameHasNumber(f, g) ==
  /\ Len(f) >= g + 4
  /\ SubSeq(f, Len(f) - 3, Len(f)) = <<".", "h", "t", "m">>
  /\ \A j \in 1..g : f[j] \in Digits
  /\ \A j \in (g + 1)..(Len(f) - 4) : f[j] \in WordChars
  /\ g = 3 => f[4] \notin Digits

\* the identifier a document with this file name and text is to get
ExpectedIdentifier(f, text) ==
  IF HasPhrase(text) THEN Some(PhraseNumber(text))
  ELSE IF \E g \in {3, 4} : NameHasNumber(f, g)
  THEN Some(SubSeq(f, 1, CHOOSE g \in {3, 4} : NameHasNumber(f, g)))
  ELSE None

\* C11: the identifier of every extracted record is the number of the first
\* HOUSE BILL phrase of the text when the text has one, whatever the url;
\* otherwise the three or four digits that start the file name (the first
\* four of more), a qualifier and ".htm" left out; otherwise absent.  The
\* substitute .../1181-S.htm, which has no phrase, gets "1181".
C11_IdentifierExtraction ==
  \A i \in DOMAIN fut :
    fut[i].result # None =>
      /\ fut[i].result[1].bill_number
           = ExpectedIdentifier(files[i].file, TextOf(files[i]))
      /\ files[i].file = <<"1", "1", "8", "1", "-", "S", ".", "h", "t", "m">>
           => fut[i].result[1].bill_number = Some(<<"1", "1", "8", "1">>)

\* C11: in one session the substitute 1181-S.htm was extracted with the
\* number of its file name, and 1500.htm with the number of its text, 1234.
C11_Witness ==
  /\ Len(fut) = 2
  /\ fut[1].result # None /\ fut[2].result # None
  /\ files[1].file = <<"1", "1", "8", "1", "-", "S", ".", "h", "t", "m">>
  /\ ~HasPhrase(TextOf(files[1]))
  /\ fut[1].result[1].bill_number = Some(<<"1", "1", "8", "1">>)
  /\ files[2].file = <<"1", "5", "0", "0", ".", "h", "t", "m">>
  /\ fut[2].result[1].bill_number = Some(<<"1", "2", "3", "4">>)

\* a step of a worker thread: a future starts running or finishes
WorkerStep ==
  \E i \in DOMAIN fut \cap DOMAIN fut' :
    /\ fut'[i].state # fut[i].state
    /\ fut'[i].state \in {"RUNNING", "FINISHED"}

\* a step of the control thread in the loop over as_completed, or its sort
ControlLoopStep ==
  \/ \E i \in 1..MaxFiles : DrainStep(i)
  \/ pc = "sort" /\ pc' = "write"

\* C12: a step that changes the rows or the deduplication set is a step of
\* the control thread, the set being changed by the loop body only and the
\* rows by the loop body and the final sort; it is no step of a worker, and
\* a worker step leaves both as they are.  The control thread being one
\* thread, no two such steps are concurrent.
C12_OnlyControlLoopWrites ==
  [][/\ (rows' # rows \/ seen' # seen) => (ControlLoopStep /\ ~WorkerStep)
     /\ seen' # seen => \E i \in 1..MaxFiles : DrainStep(i)
     /\ WorkerStep => (rows' = rows /\ seen' = seen /\ pc' = pc)]_vars

\* C12: workers and control loop interleaved: the first document was drained
\* and gave a row, then the extraction of the second, a qualifying record
\* as well, finished, and rows and set still hold the first only.
C12_Witness ==
  /\ pc = "drain" /\ Len(fut) = 2
  /\ fut[1].yielded /\ Len(rows) = 1 /\ rows[1].bill_text_url = files[1]
  /\ Cardinality(seen) = 1
  /\ waiter = <<2>> /\ fut[2].state = "FINISHED" /\ fut[2].result # None
  /\ Appends(Biennium, fut[2].result, years, seen)

\* C13: with delay > 0 the pauses taken equal the rows appended, a pause
\* starts only in a loop-body step that appends a row and every such step
\* starts one; a loop-body step that appends nothing (failed, filtered out
\* or duplicate) starts none; a worker step neither starts nor ends a pause;
\* the steps taken while the control thread pauses are worker steps, and the
\* pause ends with the control thread back in the loop.  With delay = 0
\* nothing pauses.
C13_PauseAfterEachRow ==
  /\ [](delay > 0 => pauses = Len(rows))
  /\ [](delay = 0 => (pauses = 0 /\ pc # "sleep"))
  /\ [][/\ pauses' # pauses =>
             /\ pauses' = pauses + 1 /\ pc' = "sleep" /\ delay > 0
             /\ \E i \in 1..MaxFiles : DrainStep(i)
             /\ Len(rows') = Len(rows) + 1
        /\ \A i \in 1..MaxFiles :
             DrainStep(i) =>
               IF rows' = rows THEN pauses' = pauses /\ pc' = "drain"
               ELSE IF delay > 0 THEN pauses' = pauses + 1 /\ pc' = "sleep"
               ELSE pauses' = pauses /\ pc' = "drain"
        /\ WorkerStep => (pauses' = pauses /\ pc' = pc)
        /\ pc = "sleep" =>
             IF pc' = "sleep" THEN WorkerStep
             ELSE pc' = "drain" /\ rows' = rows /\ fut' = fut]_vars

\* C13: with delay > 0 the control thread pauses after the one row it has
\* appended while the other extraction of the session is still running.
C13_Witness ==
  /\ delay > 0 /\ pc = "sleep"
  /\ pauses = 1 /\ Len(rows) = 1
  /\ Len(fut) = 2 /\ fut[1].yielded /\ fut[2].state = "RUNNING"

\* the moves of a future: submitted, taken by a worker, finished
FutureMoves ==
  { <<"NEW", "PENDING">>, <<"PENDING", "RUNNING">>, <<"RUNNING", "FINISHED">> }

\* a step inside a session, which keeps its files and futures
SameSession == sess' = sess /\ pc # "list" /\ DOMAIN fut' = DOMAIN fut

\* C14: every entry of a session's listing has one future; the entries are
\* submitted one by one, each once; a future only moves forward (submitted,
\* running, finished), so nothing is submitted or fetched a second time,
\* failed or not; a future is yielded only when finished, once, and is not
\* touched afterwards; and the session is left only with every entry
\* submitted, finished and yielded.
C14_SubmittedAndDrainedOnce ==
  /\ [](/\ Len(fut) = Len(files) /\ nsub <= Len(files)
        /\ \A i \in DOMAIN fut :
             /\ fut[i].state = "NEW" <=> i > nsub
             /\ fut[i].yielded => fut[i].state = "FINISHED"
        /\ \A i \in snap \cup Range(waiter) :
             i \in DOMAIN fut /\ fut[i].state = "FINISHED" /\ ~fut[i].yielded
        /\ snap \cap Range(waiter) = {}
        /\ \A a, b \in 1..Len(waiter) : a # b => waiter[a] # waiter[b])
  /\ [][/\ SameSession =>
             /\ files' = files
             /\ \A i \in DOMAIN fut :
                  /\ fut'[i].state # fut[i].state
                       => <<fut[i].state, fut'[i].state>> \in FutureMoves
                  /\ (fut[i].state = "NEW" /\ fut'[i].state # "NEW")
                       => (i = nsub + 1 /\ nsub' = i /\ pc = "submit")
                  /\ fut[i].state = "FINISHED" => fut'[i].result = fut[i].result
                  /\ fut[i].yielded => fut'[i] = fut[i]
                  /\ (~fut[i].yielded /\ fut'[i].yielded)
                       => (pc = "drain" /\ fut[i].state = "FINISHED"
                           /\ \A j \in DOMAIN fut : j # i => fut'[j] = fut[j])
        /\ (pc \in {"submit", "iterate", "drain", "sleep"} /\ sess' # sess)
             => \A i \in DOMAIN files :
                  fut[i].state = "FINISHED" /\ fut[i].yielded]_vars

\* C14: both entries of a listing were submitted and yielded; the extraction
\* of the first failed and it stayed so.
C14_Witness ==
  /\ pc = "drain" /\ Len(files) = 2 /\ nsub = 2
  /\ fut[1].yielded /\ fut[2].yielded
  /\ fut[1].state = "FINISHED" /\ fut[1].result = None
  /\ fut[2].result # None
  /\ snap = {} /\ waiter = <<>>

\* the decimal text of the years the documents name
YearText(y) ==
  CASE y = 2022 -> <<"2", "0", "2", "2">>
    [] y = 2023 -> <<"2", "0", "2", "3">>
    [] y = 2024 -> <<"2", "0", "2", "4">>
    [] y = 2025 -> <<"2", "0", "2", "5">>

\* the summary url of identifier b (digits) and year y
SummaryTemplate(b, y) ==
  <<"https://app.leg.wa.gov/BillSummary/?BillNumber=">> \o b
    \o <<"&Year=">> \o YearText(y) \o <<"&Initiative=false">>

\* C15: the row appended for the record of a drained future has bill_number
\* "HB " and the record's identifier, the record's url (the url submitted),
\* the record's title or the empty string, the record's year, and the
\* summary url of the template with that identifier and year; and the
\* summary url of every row, accumulated or written, is the template filled
\* with the row's own number and year, so never empty.
C15_RowFields ==
  /\ [](\A r \in Range(rows) \cup Range(Written) :
          /\ SubSeq(r.bill_number, 1, 3) = <<"H", "B", " ">>
          /\ Len(r.bill_number) \in {6, 7}
          /\ \A k \in 4..Len(r.bill_number) : r.bill_number[k] \in Digits
          /\ r.bill_summary_url # <<>>
          /\ r.bill_summary_url
               = SummaryTemplate(SubSeq(r.bill_number, 4, Len(r.bill_number)), r.year))
  /\ [][\A i \in 1..MaxFiles :
          (DrainStep(i) /\ rows' # rows) =>
            LET r == rows'[Len(rows')]
                info == fut[i].result[1]
            IN /\ rows' = Append(rows, r)
               /\ r.biennium = Biennium
               /\ r.year = info.year[1]
               /\ r.bill_number = <<"H", "B", " ">> \o info.bill_number[1]
               /\ r.bill_text_url = files[i] /\ info.bill_text_url = files[i]
               /\ r.title = (IF info.title = None THEN <<>> ELSE info.title[1])
               /\ r.bill_summary_url = SummaryTemplate(info.bill_number[1], info.year[1])]_vars

\* C15: the report holds the row of 1181.htm, with its title and its summary
\* url, and the row of 999.htm, which has no title, with the empty string.
C15_Witness ==
  /\ out # None
  /\ \E r \in Range(Written) :
       /\ r.bill_number = <<"H", "B", " ", "1", "1", "8", "1">>
       /\ r.bill_text_url.file = <<"1", "1", "8", "1", ".", "h", "t", "m">>
       /\ r.title = <<"AN", "ACT", "Relating", "to", "climate", "resilience.">>
       /\ r.bill_summary_url =
            <<"https://app.leg.wa.gov/BillSummary/?BillNumber=", "1", "1", "8", "1",
              "&Year=", "2", "0", "2", "4", "&Initiative=false">>
  /\ \E r \in Range(Written) :
       /\ r.bill_number = <<"H", "B", " ", "9", "9", "9">>
       /\ r.title = <<>>
       /\ r.bill_summary_url # <<>>

\* the rows are in the order of their sessions
InSessionOrder(rs) ==
  \A i, j \in 1..Len(rs) :
    i < j => SessionOf(rs[i].biennium) <= SessionOf(rs[j].biennium)

\* C16: the sessions are taken one after another: every future belongs to
\* the session being scanned; while a listing is fetched nothing is queued
\* or running; the session changes by one, from the failed listing or with
\* every future finished and yielded; until the sort the rows are in session
\* order with none of a later session; and written rows of equal year and
\* number are in session order.
C16_SessionsSequential ==
  /\ [](/\ \A i \in DOMAIN files : files[i].base = SESSION_FOLDERS[sess].base
        /\ pc = "list" => (Running = {} /\ Pending = {} /\ snap = {} /\ waiter = <<>>)
        /\ pc \in {"list", "submit", "iterate", "drain", "sleep", "sort"}
             => /\ InSessionOrder(rows)
                /\ \A r \in Range(rows) : SessionOf(r.biennium) <= sess
        /\ pc \in {"submit", "iterate", "drain", "sleep"}
             => \A r \in Range(rows) :
                  SessionOf(r.biennium) = sess
                    => \E i \in DOMAIN fut : fut[i].yielded /\ r.bill_text_url = files[i]
        /\ \A i, j \in 1..Len(Written) :
             (i < j /\ Written[i].year = Written[j].year
                /\ RowNumber(Written[i]) = RowNumber(Written[j]))
             => SessionOf(Written[i].biennium) < SessionOf(Written[j].biennium))
  /\ [][sess' # sess =>
          /\ sess' = sess + 1
          /\ pc = "list" \/ (pc = "drain" /\ \A i \in DOMAIN fut :
                                 fut[i].state = "FINISHED" /\ fut[i].yielded)]_vars

\* C16: the report holds HB 1181 of 2024 twice, the row of the first session
\* before the row of the second.
C16_Witness ==
  /\ out # None /\ Len(Written) = 2
  /\ Written[1].year = Written[2].year
  /\ RowNumber(Written[1]) = RowNumber(Written[2])
  /\ Written[1].biennium = SESSION_FOLDERS[1].biennium
  /\ Written[2].biennium = SESSION_FOLDERS[2].biennium

\* a record passes the filter: year and identifier present, the year in the
\* year set, a keyword matched
PassesFilter(info) ==
  /\ info.year # None /\ info.bill_number # None
  /\ info.year[1] \in years
  /\ info.matched

\* the key of a row, as the deduplication set holds it
RowKey(r) ==
  <<r.biennium, Some(r.year), Some(SubSeq(r.bill_number, 4, Len(r.bill_number)))>>

\* C17: when every future of a session has been yielded, the keys of the
\* session are the keys of its successfully extracted records that pass the
\* filter, in whatever order they were yielded; and when the run is over,
\* the keys of the written rows are those of the run that drains the same
\* futures in submission order.
C17_KeySetOrderIndependent ==
  /\ (pc = "drain" /\ \A i \in DOMAIN fut : fut[i].yielded)
       => { k \in seen : k[1] = Biennium }
            = { <<Biennium, fut[i].result[1].year, fut[i].result[1].bill_number>> :
                  i \in { j \in DOMAIN fut : /\ fut[j].result # None
                                               /\ PassesFilter(fut[j].result[1]) } }
  /\ pc \in {"sort", "write", "done"} => seen = ref.seen
  /\ pc = "done" => { RowKey(r) : r \in Range(Written) } = ref.seen

\* C17: a finished run without failed listing whose rows differ from those
\* of the run in submission order, in title and url of a key, while the keys
\* are the same.
C17_Witness ==
  /\ pc = "done" /\ skipped = {}
  /\ Written # SortRows(ref.rows)
  /\ { RowKey(r) : r \in Range(Written) } = { RowKey(r) : r \in Range(ref.rows) }
  /\ \E r \in Range(Written), q \in Range(ref.rows) :
       RowKey(r) = RowKey(q) /\ r.bill_text_url # q.bill_text_url

\* C18: the deduplication set is the set of the keys of the accumulated
\* rows and has as many keys as there are rows; a step inserts a key exactly
\* when it appends a row, which only a loop-body step does, the key being
\* that of the row; and no key and no row is ever removed.
C18_SeenMatchesRows ==
  /\ [](/\ seen = { RowKey(r) : r \in Range(rows) }
        /\ Len(rows) = Cardinality(seen))
  /\ [][/\ seen \subseteq seen'
        /\ Len(rows) <= Len(rows')
        /\ Range(rows) \subseteq Range(rows')
        /\ seen' # seen <=> Len(rows') # Len(rows)
        /\ seen' # seen =>
             /\ \E i \in 1..MaxFiles : DrainStep(i)
             /\ rows' = Append(rows, rows'[Len(rows')])
             /\ seen' = seen \cup {RowKey(rows'[Len(rows')])}
             /\ RowKey(rows'[Len(rows')]) \notin seen]_vars

\* C18: in the second session a record was drained that added neither key
\* nor row, and set and rows hold one key and one row of each session.
C18_Witness ==
  /\ pc = "drain" /\ sess = 2
  /\ Len(rows) = 2 /\ Cardinality(seen) = 2
  /\ rows[1].biennium # rows[2].biennium
  /\ Len(fut) = 2 /\ fut[1].yielded /\ fut[2].yielded
  /\ fut[1].result # None /\ fut[2].result # None
  /\ rows[2].bill_text_url = files[1]
  /\ ~PassesFilter(fut[2].result[1])

====
